---- MODULE Spec2Model ----
(***************************************************************************)
(* Model of the passkey relying party of src/server.js: the user cache,    *)
(* the challenge cache, the four WebAuthn handlers (each split at its      *)
(* single await), the session cookie, /logout and /me.                     *)
(*                                                                         *)
(* User objects live on the JavaScript heap and are shared by reference:   *)
(* userCache maps a username to the id of a User object, heap maps the id  *)
(* of a User object to its devices array.  crypto.randomUUID() never       *)
(* repeats, so the id of a User doubles as the identity of its object.     *)
(***************************************************************************)
EXTENDS Integers, Sequences, FiniteSets, Bags, TLC

\* ---------------------------------------------------------------- bounds
MaxIds == 2          \* User objects ever created
MaxChal == 2         \* challenges ever generated
MaxCounter == 1      \* largest signature counter a response carries
MaxDevices == 1      \* devices pushed on one User object
MaxInFlight == 2     \* handler invocations suspended at an await at once

Usernames == {"alice", "bob"}
NoName == ""                       \* a request body without a username
Clients == {"c1"}
CredIDs == {"cred-1", "cred-2"}
PubKeys == {"pk-1", "pk-2"}
Transports == {"internal"}
Sigs == {"good", "bad", "malformed"}

None == 0                          \* undefined: no user, no challenge
NoCookie == "-"                    \* the client holds no username cookie

\* An authenticator creates one key pair per credential: the key a
\* credential id stands for.
KeyOf(id) == IF id = "cred-1" THEN "pk-1" ELSE "pk-2"
Ids == 1..MaxIds
Chals == 1..MaxChal

VARIABLES
    userCache,        \* username -> id of the cached User object, or None
    heap,             \* id of a User object -> its devices array
    challengeCache,   \* user id -> challenge, or None
    nextId,           \* next value of crypto.randomUUID()
    nextChal,         \* next challenge of the options generators
    req,              \* bag of the handler invocations suspended at their await
    cookie,           \* client -> value of its username cookie
    \* history, read by no handler:
    returned,         \* user id -> challenge of the options last returned for it
    issuedBy,         \* challenge -> the options endpoint that issued it
    sessionUser,      \* client -> id of the User its cookie was verified for
    verifiedSince     \* username -> a verify returned verified=true and no
                      \*             options request for the name ran since

vars == <<userCache, heap, challengeCache, nextId, nextChal, req, cookie,
          sessionUser, returned, issuedBy, verifiedSince>>

\* ------------------------------------------------------------ data shapes
Device(id, pk, counter, tr) ==
    [credentialID |-> id, credentialPublicKey |-> pk, counter |-> counter,
     transports |-> tr]

\* The body a client posts to a verify endpoint: the challenge it signed,
\* how the signature turns out, the credential id and the key it was made
\* with, the signature counter and the transports hint.
Responses ==
    [challenge : Chals, sig : Sigs, id : CredIDs, publicKey : PubKeys,
     counter : 0..MaxCounter, transports : Transports]

\* The bodies the clients of the model post: every parsable response made
\* with the key of its credential, and one unparsable response.
Posted ==
    {r \in Responses :
        /\ r.publicKey = KeyOf(r.id)
        /\ r.sig = "malformed" =>
              r.challenge = 1 /\ r.counter = 0 /\ r.id = "cred-1"}

NoResult == [kind |-> "none", id |-> "", publicKey |-> "", counter |-> 0]
Idle == [op |-> "idle", username |-> "", client |-> "", user |-> None,
         expectedChallenge |-> None, responseId |-> "", transports |-> "",
         result |-> NoResult]

\* What a handler has answered when it returns or suspends.
Reply(status, body) == [status |-> status, body |-> body]
Awaits == Reply(0, "await")        \* suspended at its await, nothing sent

\* ------------------------------------------------------- ceremony verifier
\* verifyRegistrationResponse of @simplewebauthn/server, by its contract:
\* it throws on a response it cannot parse or whose challenge is not the
\* expected one, reports verified=false on a failed attestation, and
\* otherwise reports the credential (id, publicKey, counter) of the response.
verifyRegistrationResponse(response, expectedChallenge) ==
    IF response.sig = "malformed" \/ response.challenge # expectedChallenge
    THEN [NoResult EXCEPT !.kind = "throw"]
    ELSE IF response.sig = "bad"
    THEN [NoResult EXCEPT !.kind = "notVerified"]
    ELSE [kind |-> "verified", id |-> response.id,
          publicKey |-> response.publicKey, counter |-> response.counter]

\* verifyAuthenticationResponse, by its contract: it throws on an unparsable
\* response, a wrong challenge, a credential id other than the stored one,
\* or a counter that is not greater than the stored one (unless both are 0);
\* verified tells whether the signature checks against the stored key, and
\* newCounter is the counter of the response.
verifyAuthenticationResponse(response, expectedChallenge, credential) ==
    IF \/ response.sig = "malformed"
       \/ response.challenge # expectedChallenge
       \/ response.id # credential.id
       \/ /\ (response.counter > 0 \/ credential.counter > 0)
          /\ response.counter <= credential.counter
    THEN [NoResult EXCEPT !.kind = "throw"]
    ELSE IF response.sig = "bad" \/ response.publicKey # credential.publicKey
    THEN [NoResult EXCEPT !.kind = "notVerified"]
    ELSE [NoResult EXCEPT !.kind = "verified", !.counter = response.counter]

\* ----------------------------------------------------------------- helpers
getUserByUsername(username) ==
    IF username \in Usernames THEN userCache[username] ELSE None

\* Array.prototype.find on user.devices: index of the first device with the
\* given credential id, 0 when there is none.
FindDevice(devices, id) ==
    IF \E i \in 1..Len(devices) : devices[i].credentialID = id
    THEN CHOOSE i \in 1..Len(devices) :
            /\ devices[i].credentialID = id
            /\ \A j \in 1..(i-1) : devices[j].credentialID # id
    ELSE 0

Suspend(r) == req (+) SetToBag({r})
Finish(r) == req (-) SetToBag({r})
InFlight == BagCardinality(req)
Pending(ops) ==
    BagCardinality([r \in {x \in BagToSet(req) : x.op \in ops} |-> req[r]])

Request(op, c, username, user) ==
    [Idle EXCEPT !.op = op, !.client = c, !.username = username,
                 !.user = user]

\* An options request for the name ran: the name is no longer "just verified".
OptionsRan(username) ==
    verifiedSince' = [verifiedSince EXCEPT ![username] = FALSE]

\* -------------------------------------------------------------------- Init
Init ==
    /\ userCache = [u \in Usernames |-> None]
    /\ heap = [i \in Ids |-> <<>>]
    /\ challengeCache = [i \in Ids |-> None]
    /\ nextId = 1
    /\ nextChal = 1
    /\ req = EmptyBag
    /\ cookie = [c \in Clients |-> NoCookie]
    /\ returned = [i \in Ids |-> None]
    /\ issuedBy = [ch \in Chals |-> ""]
    /\ sessionUser = [c \in Clients |-> None]
    /\ verifiedSince = [u \in Usernames |-> FALSE]

\* ------------------------------------------------- POST /register/options
\* The options generators draw a fresh challenge each; CanIssue keeps the
\* challenges of the suspended options requests within MaxChal.
CanIssue ==
    nextChal + Pending({"registerOptions", "loginOptions"}) <= MaxChal

createUser(username) ==
    /\ nextId <= MaxIds
    /\ userCache' = [userCache EXCEPT ![username] = nextId]
    /\ heap' = [heap EXCEPT ![nextId] = <<>>]
    /\ nextId' = nextId + 1

RegisterOptionsStartReply(username) ==
    IF username = NoName THEN Reply(400, "Username is required") ELSE Awaits

\* RegisterOptionsStart, were the lookup of lines 65-66 missing: a user is
\* created on every request.
RegisterOptionsStart_AlwaysCreates(username) ==
    /\ IF RegisterOptionsStartReply(username) # Awaits
       THEN UNCHANGED <<userCache, heap, nextId, req, verifiedSince>>
       ELSE /\ InFlight < MaxInFlight
            /\ CanIssue
            /\ createUser(username)
            /\ req' = Suspend(Request("registerOptions", "", username, nextId))
            /\ OptionsRan(username)
    /\ UNCHANGED <<challengeCache, nextChal, cookie, sessionUser, returned,
                   issuedBy>>

\* Up to the await of generateRegistrationOptions: get-or-create the user.
RegisterOptionsStart(username) ==
    /\ IF RegisterOptionsStartReply(username) # Awaits
       THEN UNCHANGED <<userCache, heap, nextId, req, verifiedSince>>
       ELSE /\ InFlight < MaxInFlight
            /\ CanIssue
            /\ IF getUserByUsername(username) = None
               THEN /\ createUser(username)
                    /\ req' = Suspend(Request("registerOptions", "", username,
                                              nextId))
               ELSE /\ req' = Suspend(Request("registerOptions", "", username,
                                              getUserByUsername(username)))
                    /\ UNCHANGED <<userCache, heap, nextId>>
            /\ OptionsRan(username)
    /\ UNCHANGED <<challengeCache, nextChal, cookie, sessionUser, returned,
                   issuedBy>>

\* The options the generator hands back: their challenge is fresh.
generateOptions == [challenge |-> nextChal]

\* RegisterOptionsResume, were it to keep a challenge the user already has
\* (set only when the cache has none) and still return the new options.
RegisterOptionsResume_KeepsExisting(r) ==
    /\ BagIn(r, req)
    /\ r.op = "registerOptions"
    /\ LET options == generateOptions IN
       /\ challengeCache' = [challengeCache EXCEPT ![r.user] =
                               IF @ = None THEN options.challenge ELSE @]
       /\ returned' = [returned EXCEPT ![r.user] = options.challenge]
       /\ issuedBy' = [issuedBy EXCEPT ![options.challenge] = r.op]
    /\ nextChal' = nextChal + 1
    /\ req' = Finish(r)
    /\ OptionsRan(r.username)
    /\ UNCHANGED <<userCache, heap, nextId, cookie, sessionUser>>

\* After the await: store the challenge of the options and send them.
RegisterOptionsResume(r) ==
    /\ BagIn(r, req)
    /\ r.op = "registerOptions"
    /\ LET options == generateOptions IN
       /\ challengeCache' = [challengeCache EXCEPT ![r.user] =
                                                       options.challenge]
       /\ returned' = [returned EXCEPT ![r.user] = options.challenge]
       /\ issuedBy' = [issuedBy EXCEPT ![options.challenge] = r.op]
    /\ nextChal' = nextChal + 1
    /\ req' = Finish(r)
    /\ OptionsRan(r.username)
    /\ UNCHANGED <<userCache, heap, nextId, cookie, sessionUser>>

\* generateRegistrationOptions throws: its await (line 70) is in no try
\* block, so the promise of the handler rejects and the handler sends no
\* response and stores no challenge.  The call of the generator counts
\* against MaxChal like one that returns.
RegisterOptionsThrow(r) ==
    /\ BagIn(r, req)
    /\ r.op = "registerOptions"
    /\ req' = Finish(r)
    /\ nextChal' = nextChal + 1
    /\ UNCHANGED <<userCache, heap, challengeCache, nextId, cookie,
                   sessionUser, returned, issuedBy, verifiedSince>>

\* -------------------------------------------------- POST /register/verify
\* RegisterVerifyStartReply, were the check of the challenge missing.
RegisterVerifyStartReply_NoChallengeCheck(username) ==
    IF getUserByUsername(username) = None
    THEN Reply(400, "User not found")
    ELSE Awaits

RegisterVerifyStartReply(username) ==
    LET user == getUserByUsername(username) IN
    IF user = None THEN Reply(400, "User not found")
    ELSE IF challengeCache[user] = None
    THEN Reply(400, "Challenge expired or not found")
    ELSE Awaits

\* Up to the await of verifyRegistrationResponse.
RegisterVerifyStart(username, response) ==
    /\ IF RegisterVerifyStartReply(username) # Awaits
       THEN UNCHANGED req
       ELSE LET user == getUserByUsername(username)
                expectedChallenge == challengeCache[user]
                verification ==
                    verifyRegistrationResponse(response, expectedChallenge)
                pushes == {x \in BagToSet(req) :
                              /\ x.op = "registerVerify"
                              /\ x.user = user
                              /\ x.result.kind = "verified"}
            IN /\ InFlight < MaxInFlight
               /\ verification.kind = "verified" =>
                    Len(heap[user])
                      + BagCardinality([x \in pushes |-> req[x]]) < MaxDevices
               /\ req' = Suspend(
                      [Request("registerVerify", "", username, user)
                         EXCEPT !.expectedChallenge = expectedChallenge,
                                !.transports = response.transports,
                                !.result = verification])
    /\ UNCHANGED <<userCache, heap, challengeCache, nextId, nextChal, cookie,
                   sessionUser, returned, issuedBy, verifiedSince>>

RegisterVerifyResumeReply(r) ==
    IF r.result.kind = "throw" THEN Reply(400, "error.message")
    ELSE IF r.result.kind = "verified" THEN Reply(200, "verified")
    ELSE Reply(400, "not verified")

\* RegisterVerifyResume, were it to store counter 0 instead of the counter
\* the verifier reported.
RegisterVerifyResume_CounterZero(r) ==
    /\ BagIn(r, req)
    /\ r.op = "registerVerify"
    /\ IF RegisterVerifyResumeReply(r) = Reply(200, "verified")
       THEN LET newDevice == Device(r.result.id, r.result.publicKey, 0,
                                    r.transports)
            IN /\ heap' = [heap EXCEPT ![r.user] = Append(@, newDevice)]
               /\ userCache' = [userCache EXCEPT ![r.username] = r.user]
               /\ challengeCache' = [challengeCache EXCEPT ![r.user] = None]
               /\ verifiedSince' = [verifiedSince EXCEPT ![r.username] = TRUE]
       ELSE UNCHANGED <<userCache, heap, challengeCache, verifiedSince>>
    /\ req' = Finish(r)
    /\ UNCHANGED <<nextId, nextChal, cookie, sessionUser, returned, issuedBy>>

\* RegisterVerifyResume, were the challengeCache.delete of line 136 missing.
RegisterVerifyResume_KeepsChallenge(r) ==
    /\ BagIn(r, req)
    /\ r.op = "registerVerify"
    /\ IF RegisterVerifyResumeReply(r) = Reply(200, "verified")
       THEN LET newDevice == Device(r.result.id, r.result.publicKey,
                                    r.result.counter, r.transports)
            IN /\ heap' = [heap EXCEPT ![r.user] = Append(@, newDevice)]
               /\ userCache' = [userCache EXCEPT ![r.username] = r.user]
               /\ verifiedSince' = [verifiedSince EXCEPT ![r.username] = TRUE]
       ELSE UNCHANGED <<userCache, heap, verifiedSince>>
    /\ req' = Finish(r)
    /\ UNCHANGED <<challengeCache, nextId, nextChal, cookie, sessionUser,
                   returned, issuedBy>>

\* RegisterVerifyResume, were it to test only that the verifier did not
\* throw (the "verified &&" of line 119 missing).
RegisterVerifyResume_PushesUnverified(r) ==
    /\ BagIn(r, req)
    /\ r.op = "registerVerify"
    /\ IF r.result.kind # "throw"
       THEN LET newDevice == Device(r.result.id, r.result.publicKey,
                                    r.result.counter, r.transports)
            IN /\ heap' = [heap EXCEPT ![r.user] = Append(@, newDevice)]
               /\ userCache' = [userCache EXCEPT ![r.username] = r.user]
               /\ challengeCache' = [challengeCache EXCEPT ![r.user] = None]
               /\ verifiedSince' = [verifiedSince EXCEPT ![r.username] = TRUE]
       ELSE UNCHANGED <<userCache, heap, challengeCache, verifiedSince>>
    /\ req' = Finish(r)
    /\ UNCHANGED <<nextId, nextChal, cookie, sessionUser, returned, issuedBy>>

\* After the await: push the new device on success.
RegisterVerifyResume(r) ==
    /\ BagIn(r, req)
    /\ r.op = "registerVerify"
    /\ IF RegisterVerifyResumeReply(r) = Reply(200, "verified")
       THEN LET newDevice == Device(r.result.id, r.result.publicKey,
                                    r.result.counter, r.transports)
            IN /\ heap' = [heap EXCEPT ![r.user] = Append(@, newDevice)]
               /\ userCache' = [userCache EXCEPT ![r.username] = r.user]
               /\ challengeCache' = [challengeCache EXCEPT ![r.user] = None]
               /\ verifiedSince' = [verifiedSince EXCEPT ![r.username] = TRUE]
       ELSE UNCHANGED <<userCache, heap, challengeCache, verifiedSince>>
    /\ req' = Finish(r)
    /\ UNCHANGED <<nextId, nextChal, cookie, sessionUser, returned, issuedBy>>

\* ----------------------------------------------------- POST /login/options
LoginOptionsStartReply(username) ==
    IF getUserByUsername(username) = None
    THEN Reply(400, "User not found")
    ELSE Awaits

\* LoginOptionsStart, were it to get-or-create the user as /register/options
\* does.
LoginOptionsStart_GetOrCreate(username) ==
    /\ InFlight < MaxInFlight
    /\ CanIssue
    /\ IF getUserByUsername(username) = None
       THEN /\ createUser(username)
            /\ req' = Suspend(Request("loginOptions", "", username, nextId))
       ELSE /\ req' = Suspend(Request("loginOptions", "", username,
                                      getUserByUsername(username)))
            /\ UNCHANGED <<userCache, heap, nextId>>
    /\ OptionsRan(username)
    /\ UNCHANGED <<challengeCache, nextChal, cookie, sessionUser, returned,
                   issuedBy>>

LoginOptionsStart(username) ==
    /\ IF LoginOptionsStartReply(username) # Awaits
       THEN UNCHANGED <<req, verifiedSince>>
       ELSE /\ InFlight < MaxInFlight
            /\ CanIssue
            /\ req' = Suspend(Request("loginOptions", "", username,
                                      getUserByUsername(username)))
            /\ OptionsRan(username)
    /\ UNCHANGED <<userCache, heap, challengeCache, nextId, nextChal, cookie,
                   sessionUser, returned, issuedBy>>

LoginOptionsResume(r) ==
    /\ BagIn(r, req)
    /\ r.op = "loginOptions"
    /\ LET options == generateOptions IN
       /\ challengeCache' = [challengeCache EXCEPT ![r.user] =
                                                       options.challenge]
       /\ returned' = [returned EXCEPT ![r.user] = options.challenge]
       /\ issuedBy' = [issuedBy EXCEPT ![options.challenge] = r.op]
    /\ nextChal' = nextChal + 1
    /\ req' = Finish(r)
    /\ OptionsRan(r.username)
    /\ UNCHANGED <<userCache, heap, nextId, cookie, sessionUser>>

\* generateAuthenticationOptions throws: as for /register/options, nothing
\* catches it (line 157) and the handler sends no response.
LoginOptionsThrow(r) ==
    /\ BagIn(r, req)
    /\ r.op = "loginOptions"
    /\ req' = Finish(r)
    /\ nextChal' = nextChal + 1
    /\ UNCHANGED <<userCache, heap, challengeCache, nextId, cookie,
                   sessionUser, returned, issuedBy, verifiedSince>>

\* ------------------------------------------------------ POST /login/verify
\* A missing device throws inside the try block, before anything is awaited.
LoginVerifyStartReply(username, response) ==
    LET user == getUserByUsername(username) IN
    IF user = None THEN Reply(400, "User not found")
    ELSE IF challengeCache[user] = None
    THEN Reply(400, "Challenge expired or not found")
    ELSE IF FindDevice(heap[user], response.id) = 0
    THEN Reply(400, "Authenticator not found for this user")
    ELSE Awaits

\* LoginVerifyStart, were the device looked up in the device lists of all
\* users instead of user.devices.
LoginVerifyStart_AnyUsersDevice(c, username, response) ==
    LET user == getUserByUsername(username)
        owners == {id \in Ids : FindDevice(heap[id], response.id) # 0}
    IN
    /\ IF user = None
       THEN UNCHANGED req
       ELSE IF challengeCache[user] = None \/ owners = {}
       THEN UNCHANGED req
       ELSE LET owner == IF user \in owners THEN user
                         ELSE CHOOSE id \in owners : TRUE
                device == heap[owner][FindDevice(heap[owner], response.id)]
                verification ==
                    verifyAuthenticationResponse(response,
                        challengeCache[user],
                        [id |-> device.credentialID,
                         publicKey |-> device.credentialPublicKey,
                         counter |-> device.counter,
                         transports |-> device.transports])
            IN /\ InFlight < MaxInFlight
               /\ req' = Suspend(
                      [Request("loginVerify", c, username, user)
                         EXCEPT !.expectedChallenge = challengeCache[user],
                                !.responseId = response.id,
                                !.result = verification])
    /\ UNCHANGED <<userCache, heap, challengeCache, nextId, nextChal, cookie,
                   sessionUser, returned, issuedBy, verifiedSince>>

\* Up to the await of verifyAuthenticationResponse.
LoginVerifyStart(c, username, response) ==
    /\ IF LoginVerifyStartReply(username, response) # Awaits
       THEN UNCHANGED req
       ELSE LET user == getUserByUsername(username)
                expectedChallenge == challengeCache[user]
                device == heap[user][FindDevice(heap[user], response.id)]
                verification ==
                    verifyAuthenticationResponse(response, expectedChallenge,
                        [id |-> device.credentialID,
                         publicKey |-> device.credentialPublicKey,
                         counter |-> device.counter,
                         transports |-> device.transports])
            IN /\ InFlight < MaxInFlight
               /\ req' = Suspend(
                      [Request("loginVerify", c, username, user)
                         EXCEPT !.expectedChallenge = expectedChallenge,
                                !.responseId = response.id,
                                !.result = verification])
    /\ UNCHANGED <<userCache, heap, challengeCache, nextId, nextChal, cookie,
                   sessionUser, returned, issuedBy, verifiedSince>>

LoginVerifyResumeReply(r) ==
    IF r.result.kind = "throw" THEN Reply(400, "error.message")
    ELSE IF r.result.kind = "verified" THEN Reply(200, "verified")
    ELSE Reply(400, "not verified")

\* LoginVerifyResume, were the res.cookie call of line 219 missing.
LoginVerifyResume_NoCookie(r) ==
    /\ BagIn(r, req)
    /\ r.op = "loginVerify"
    /\ IF LoginVerifyResumeReply(r) = Reply(200, "verified")
       THEN LET i == FindDevice(heap[r.user], r.responseId)
            IN /\ heap' = [heap EXCEPT ![r.user][i].counter = r.result.counter]
               /\ userCache' = [userCache EXCEPT ![r.username] = r.user]
               /\ challengeCache' = [challengeCache EXCEPT ![r.user] = None]
               /\ verifiedSince' = [verifiedSince EXCEPT ![r.username] = TRUE]
       ELSE UNCHANGED <<userCache, heap, challengeCache, verifiedSince>>
    /\ req' = Finish(r)
    /\ UNCHANGED <<nextId, nextChal, returned, issuedBy, cookie, sessionUser>>

\* LoginVerifyResume, were the cookie set before the test of verified
\* (line 211), on every answer of the verifier.
LoginVerifyResume_CookieOnFailure(r) ==
    /\ BagIn(r, req)
    /\ r.op = "loginVerify"
    /\ cookie' = [cookie EXCEPT ![r.client] = r.username]
    /\ sessionUser' = [sessionUser EXCEPT ![r.client] = r.user]
    /\ IF LoginVerifyResumeReply(r) = Reply(200, "verified")
       THEN LET i == FindDevice(heap[r.user], r.responseId)
            IN /\ heap' = [heap EXCEPT ![r.user][i].counter = r.result.counter]
               /\ userCache' = [userCache EXCEPT ![r.username] = r.user]
               /\ challengeCache' = [challengeCache EXCEPT ![r.user] = None]
               /\ verifiedSince' = [verifiedSince EXCEPT ![r.username] = TRUE]
       ELSE UNCHANGED <<userCache, heap, challengeCache, verifiedSince>>
    /\ req' = Finish(r)
    /\ UNCHANGED <<nextId, nextChal, returned, issuedBy>>

\* After the await: store the new counter and set the session cookie.
LoginVerifyResume(r) ==
    /\ BagIn(r, req)
    /\ r.op = "loginVerify"
    /\ IF LoginVerifyResumeReply(r) = Reply(200, "verified")
       THEN LET i == FindDevice(heap[r.user], r.responseId)
            IN /\ heap' = [heap EXCEPT ![r.user][i].counter = r.result.counter]
               /\ userCache' = [userCache EXCEPT ![r.username] = r.user]
               /\ challengeCache' = [challengeCache EXCEPT ![r.user] = None]
               /\ cookie' = [cookie EXCEPT ![r.client] = r.username]
               /\ sessionUser' = [sessionUser EXCEPT ![r.client] = r.user]
               /\ verifiedSince' = [verifiedSince EXCEPT ![r.username] = TRUE]
       ELSE UNCHANGED <<userCache, heap, challengeCache, cookie, sessionUser,
                        verifiedSince>>
    /\ req' = Finish(r)
    /\ UNCHANGED <<nextId, nextChal, returned, issuedBy>>

\* ------------------------------------------------------ POST /logout, /me
LogoutReply(c) == Reply(200, "success")

Logout(c) ==
    /\ cookie' = [cookie EXCEPT ![c] = NoCookie]
    /\ sessionUser' = [sessionUser EXCEPT ![c] = None]
    /\ UNCHANGED <<userCache, heap, challengeCache, nextId, nextChal, req,
                   returned, issuedBy, verifiedSince>>

\* MeReply, were the userCache.has of line 236 missing: the cookie alone
\* decides.
MeReply_IgnoresStore(c) ==
    IF cookie[c] # NoCookie
    THEN [loggedIn |-> TRUE, username |-> cookie[c]]
    ELSE [loggedIn |-> FALSE, username |-> ""]

\* GET /me: userCache.has(username) for the username of the cookie.
MeReply(c) ==
    IF cookie[c] # NoCookie /\ getUserByUsername(cookie[c]) # None
    THEN [loggedIn |-> TRUE, username |-> cookie[c]]
    ELSE [loggedIn |-> FALSE, username |-> ""]

Me(c) ==
    /\ MeReply(c).loggedIn \in BOOLEAN
    /\ UNCHANGED vars

\* ------------------------------------------------------------ cache expiry
\* userCache: max 100 entries, ttl 24 h.  An entry can leave at any time.
EvictUser(username) ==
    /\ userCache[username] # None
    /\ userCache' = [userCache EXCEPT ![username] = None]
    /\ UNCHANGED <<heap, challengeCache, nextId, nextChal, req, cookie,
                   sessionUser, returned, issuedBy, verifiedSince>>

\* challengeCache: max 1000 entries, ttl 5 min.
ExpireChallenge(id) ==
    /\ challengeCache[id] # None
    /\ challengeCache' = [challengeCache EXCEPT ![id] = None]
    /\ UNCHANGED <<userCache, heap, nextId, nextChal, req, cookie,
                   sessionUser, returned, issuedBy, verifiedSince>>

\* The usernames of the request bodies, the missing one included.
Names == Usernames \cup {NoName}

Next ==
    \/ \E u \in Names : RegisterOptionsStart(u)
    \/ \E r \in BagToSet(req) : RegisterOptionsResume(r)
    \/ \E r \in BagToSet(req) : RegisterOptionsThrow(r)
    \/ \E u \in Names, p \in Posted : RegisterVerifyStart(u, p)
    \/ \E r \in BagToSet(req) : RegisterVerifyResume(r)
    \/ \E u \in Names : LoginOptionsStart(u)
    \/ \E r \in BagToSet(req) : LoginOptionsResume(r)
    \/ \E r \in BagToSet(req) : LoginOptionsThrow(r)
    \/ \E c \in Clients, u \in Names, p \in Posted : LoginVerifyStart(c, u, p)
    \/ \E r \in BagToSet(req) : LoginVerifyResume(r)
    \/ \E c \in Clients : Logout(c)
    \/ \E c \in Clients : Me(c)
    \/ \E u \in Usernames : EvictUser(u)
    \/ \E i \in Ids : ExpireChallenge(i)

Spec == Init /\ [][Next]_vars

\* The server some time after alice has registered the passkey cred-1: her
\* User holds the device, the challenge of that ceremony is gone and no
\* request is in flight.  Challenges are fresh values, so their numbering
\* starts anew; the history of the finished ceremony is not kept.
InitRegistered ==
    /\ userCache = [u \in Usernames |-> IF u = "alice" THEN 1 ELSE None]
    /\ heap = [i \in Ids |->
                 IF i = 1
                 THEN <<Device("cred-1", KeyOf("cred-1"), 0, "internal")>>
                 ELSE <<>>]
    /\ challengeCache = [i \in Ids |-> None]
    /\ nextId = 2
    /\ nextChal = 1
    /\ req = EmptyBag
    /\ cookie = [c \in Clients |-> NoCookie]
    /\ returned = [i \in Ids |-> None]
    /\ issuedBy = [ch \in Chals |-> ""]
    /\ sessionUser = [c \in Clients |-> None]
    /\ verifiedSince = [u \in Usernames |-> FALSE]

SpecRegistered == InitRegistered /\ [][Next]_vars

\* The continuation of the handler invocation r: what runs when the promise
\* it awaits settles, the generator or the verifier having returned or
\* thrown.
Continue(r) ==
    \/ RegisterOptionsResume(r)
    \/ RegisterOptionsThrow(r)
    \/ RegisterVerifyResume(r)
    \/ LoginOptionsResume(r)
    \/ LoginOptionsThrow(r)
    \/ LoginVerifyResume(r)

\* Every external call settles, and the event loop of Node.js runs the
\* continuation of a settled promise.
FairSpec ==
    Init /\ [][Next]_vars /\ WF_vars(\E r \in BagToSet(req) : Continue(r))

\* ------------------------------------------------------------------ claims
VerifyOps == {"registerVerify", "loginVerify"}

\* The stored devices of the users the Credential Store holds.
StoredDevices(username) ==
    IF userCache[username] = None THEN <<>> ELSE heap[userCache[username]]

UserNotFound == Reply(400, "User not found")
ChallengeMissing == Reply(400, "Challenge expired or not found")

\* The requests that the step suspends.
Suspended(r) == BagIn(r, req') /\ CopiesIn(r, req') > CopiesIn(r, req)

\* C1: a verify call that found a live challenge leaves that challenge no
\* longer live when it returns, whatever the verifier answered.
C1_ConsumedWhateverTheOutcome ==
    [][\A r \in BagToSet(req) :
          (RegisterVerifyResume(r) \/ LoginVerifyResume(r))
              => challengeCache'[r.user] # r.expectedChallenge]_vars

\* C2 as claimed: once a verify call for a name has returned verified=true
\* and no options request for the name has run since, a further verify call
\* for the name fails with "Challenge expired or not found".
C2_SecondVerifyChallengeMissing ==
    \A u \in Usernames :
        verifiedSince[u] =>
            /\ RegisterVerifyStartReply(u) = ChallengeMissing
            /\ \A p \in Posted : LoginVerifyStartReply(u, p) = ChallengeMissing

\* C2 as amended: such a further verify call never reaches the verifier; it
\* fails with "Challenge expired or not found" while the user is still in
\* the store and with "User not found" once the user has been evicted.
C2_SecondVerifyRejected ==
    \A u \in Usernames :
        verifiedSince[u] =>
            LET expected == IF getUserByUsername(u) = None
                            THEN UserNotFound ELSE ChallengeMissing
            IN /\ RegisterVerifyStartReply(u) = expected
               /\ \A p \in Posted : LoginVerifyStartReply(u, p) = expected

C2_Witness ==
    \E u \in Usernames :
        /\ verifiedSince[u]
        /\ getUserByUsername(u) # None
        /\ Len(StoredDevices(u)) > 0
        /\ RegisterVerifyStartReply(u) = ChallengeMissing

\* C3: of the verify requests of one user that are in flight together, at
\* most one holds a given challenge as its expectedChallenge.
C3_AtMostOneTaker ==
    \A r \in BagToSet(req) :
        r.op \in VerifyOps =>
            BagCardinality([x \in {y \in BagToSet(req) :
                                      /\ y.op = r.op
                                      /\ y.user = r.user
                                      /\ y.expectedChallenge =
                                             r.expectedChallenge}
                            |-> req[x]]) <= 1

\* C4: no credentialID is stored twice, neither in the device lists of two
\* users nor twice in the device list of one user.
C4_CredentialIDUnique ==
    \A u, v \in Usernames :
        \A i \in 1..Len(StoredDevices(u)), j \in 1..Len(StoredDevices(v)) :
            StoredDevices(u)[i].credentialID = StoredDevices(v)[j].credentialID
                => (u = v /\ i = j)

\* C5: the stored counter of a registered authenticator never decreases.
C5_CounterNeverDecreases ==
    [][\A id \in Ids : \A i \in 1..Len(heap[id]) :
          heap'[id][i].counter >= heap[id][i].counter]_vars

C7_RegistrationHappyPath ==
    /\ [][\A r \in BagToSet(req) :
            (RegisterOptionsResume(r) /\ getUserByUsername(r.username) = r.user)
                => /\ challengeCache'[r.user] = generateOptions.challenge
                   /\ RegisterVerifyStartReply(r.username)' = Awaits]_vars
    /\ [][\A u \in Usernames, p \in Posted :
            ( /\ req' # req
              /\ RegisterVerifyStartReply(u) = Awaits
              /\ p.sig = "good"
              /\ p.challenge = returned[getUserByUsername(u)]
              /\ RegisterVerifyStart(u, p) )
                => \E r \in BagToSet(req') :
                      /\ Suspended(r)
                      /\ r.op = "registerVerify"
                      /\ r.username = u
                      /\ r.user = getUserByUsername(u)
                      /\ r.expectedChallenge = p.challenge
                      /\ r.transports = p.transports
                      /\ r.result = [kind |-> "verified", id |-> p.id,
                                     publicKey |-> p.publicKey,
                                     counter |-> p.counter]]_vars
    /\ [][\A r \in BagToSet(req) :
            ( /\ RegisterVerifyResume(r)
              /\ r.result.kind = "verified"
              /\ getUserByUsername(r.username) = r.user )
                => /\ RegisterVerifyResumeReply(r) = Reply(200, "verified")
                   /\ StoredDevices(r.username)' =
                          Append(StoredDevices(r.username),
                                 Device(r.result.id, r.result.publicKey,
                                        r.result.counter, r.transports))
                   /\ \A v \in Usernames \ {r.username} :
                          StoredDevices(v)' = StoredDevices(v)]_vars

C7_Witness ==
    \E u \in Usernames :
        /\ verifiedSince[u]
        /\ Len(StoredDevices(u)) = 1
        /\ StoredDevices(u)[1].counter = 1
        /\ StoredDevices(u)[1].credentialPublicKey = "pk-2"
        /\ \E v \in Usernames \ {u} : Len(StoredDevices(v)) = 1
        /\ req = EmptyBag

\* C8: right after a /login/verify for a name answered verified=true, /me
\* of that client answers loggedIn=true with the name; right after /logout
\* of a client, /me of that client answers loggedIn=false; /logout can
\* always be called, answers success, and leaves a client without a cookie
\* without a cookie.
C8_SessionScenario ==
    /\ [][\A r \in BagToSet(req) :
            (LoginVerifyResume(r) /\ r.result.kind = "verified")
                => /\ LoginVerifyResumeReply(r) = Reply(200, "verified")
                   /\ MeReply(r.client)' =
                        [loggedIn |-> TRUE, username |-> r.username]]_vars
    /\ [](\A c \in Clients :
            (cookie[c] \in Usernames /\ getUserByUsername(cookie[c]) # None)
                => MeReply(c) = [loggedIn |-> TRUE, username |-> cookie[c]])
    /\ [][\A c \in Clients :
            Logout(c) => MeReply(c)' = [loggedIn |-> FALSE, username |-> ""]
         ]_vars
    /\ [](\A c \in Clients :
            /\ ENABLED Logout(c)
            /\ LogoutReply(c) = Reply(200, "success")
            /\ cookie[c] = NoCookie => ~MeReply(c).loggedIn)

C8_Witness ==
    \E c \in Clients :
        /\ cookie[c] = "alice"
        /\ MeReply(c) = [loggedIn |-> TRUE, username |-> "alice"]
        /\ verifiedSince["alice"]

\* C9: a verify call for a name without a User answers "User not found",
\* one for a user without a live challenge answers "Challenge expired or not
\* found"; either way the verifier is not called (nothing is suspended) and
\* the stores and the cookies stay as they were: a step that changes any of
\* them is no verify call for such a name.
C9_VerifyPreconditions ==
    /\ [](\A u \in Names, p \in Posted :
            LET user == getUserByUsername(u) IN
            /\ user = None
                => /\ RegisterVerifyStartReply(u) = UserNotFound
                   /\ LoginVerifyStartReply(u, p) = UserNotFound
            /\ (user # None /\ challengeCache[user] = None)
                => /\ RegisterVerifyStartReply(u) = ChallengeMissing
                   /\ LoginVerifyStartReply(u, p) = ChallengeMissing)
    /\ [][\A u \in Names :
            ( \/ getUserByUsername(u) = None
              \/ challengeCache[getUserByUsername(u)] = None )
                => \/ UNCHANGED <<userCache, heap, challengeCache, cookie, req>>
                   \/ \A p \in Posted :
                        /\ ~RegisterVerifyStart(u, p)
                        /\ \A c \in Clients : ~LoginVerifyStart(c, u, p)]_vars

C9_Witness ==
    \E u, v \in Usernames :
        /\ getUserByUsername(u) = None
        /\ getUserByUsername(v) # None
        /\ challengeCache[getUserByUsername(v)] = None
        /\ returned[getUserByUsername(v)] # None
        /\ RegisterVerifyStartReply(u) = UserNotFound
        /\ RegisterVerifyStartReply(v) = ChallengeMissing

\* C10: the live challenge of a user is the challenge of the options most
\* recently returned for that user; an options request replaces whatever
\* challenge the user had by the one it returns; and the expectedChallenge a
\* verify call hands to the verifier is that most recently returned one.
C10_ChallengeRoundTrip ==
    /\ [](\A id \in Ids :
            challengeCache[id] # None => challengeCache[id] = returned[id])
    /\ [][\A r \in BagToSet(req) :
            (RegisterOptionsResume(r) \/ LoginOptionsResume(r))
                => /\ returned'[r.user] = generateOptions.challenge
                   /\ challengeCache'[r.user] = returned'[r.user]
                   /\ challengeCache'[r.user] # challengeCache[r.user]]_vars
    /\ [][\A r \in BagToSet(req') :
            (Suspended(r) /\ r.op \in VerifyOps)
                => /\ r.user = getUserByUsername(r.username)
                   /\ r.expectedChallenge = returned[r.user]
                   /\ r.expectedChallenge # None]_vars

C10_Witness ==
    /\ nextId = 2
    /\ returned[1] = 2
    /\ \E r \in BagToSet(req) :
          r.op \in VerifyOps /\ r.user = 1 /\ r.expectedChallenge = 2

\* C11: a verify call whose verifier threw or answered verified=false
\* answers 400 and leaves every device list, every counter, the Credential
\* Store and every session cookie as they were.
C11_FailedVerifyFrame ==
    [][\A r \in BagToSet(req) :
          ( /\ r.op \in VerifyOps
            /\ r.result.kind # "verified"
            /\ RegisterVerifyResume(r) \/ LoginVerifyResume(r) )
              => /\ IF r.op = "registerVerify"
                    THEN RegisterVerifyResumeReply(r).status = 400
                    ELSE LoginVerifyResumeReply(r).status = 400
                 /\ UNCHANGED <<heap, userCache, cookie>>]_vars

C11_Witness ==
    \E r1, r2 \in BagToSet(req) :
        /\ r1.op = "loginVerify" /\ r1.result.kind = "notVerified"
        /\ r2.op = "registerVerify" /\ r2.result.kind = "throw"
        /\ Len(heap[r1.user]) = 1

AuthenticatorNotFound == Reply(400, "Authenticator not found for this user")

\* C12: a /login/verify whose response.id is the credentialID of no device
\* in the named user's own list answers 400 "Authenticator not found for
\* this user" and does not reach the verifier, whoever else holds such a
\* device; every /login/verify that reaches the verifier hands it the
\* first device of the named user's list with that credentialID.
C12_LookupConfinedToUser ==
    /\ [](\A u \in Usernames, p \in Posted :
            LET user == getUserByUsername(u) IN
            ( /\ user # None
              /\ challengeCache[user] # None
              /\ \A i \in 1..Len(heap[user]) :
                     heap[user][i].credentialID # p.id )
                => LoginVerifyStartReply(u, p) = AuthenticatorNotFound)
    /\ [][\A r \in BagToSet(req') :
            (Suspended(r) /\ r.op = "loginVerify")
                => /\ r.user = getUserByUsername(r.username)
                   /\ FindDevice(heap[r.user], r.responseId) # 0
                   /\ LET d == heap[r.user][FindDevice(heap[r.user],
                                                       r.responseId)]
                      IN \E p \in Posted :
                            /\ p.id = r.responseId
                            /\ r.result = verifyAuthenticationResponse(p,
                                   r.expectedChallenge,
                                   [id |-> d.credentialID,
                                    publicKey |-> d.credentialPublicKey,
                                    counter |-> d.counter,
                                    transports |-> d.transports])]_vars

C12_Witness ==
    \E u, v \in Usernames, p \in Posted :
        /\ u # v
        /\ getUserByUsername(u) # None /\ getUserByUsername(v) # None
        /\ FindDevice(heap[getUserByUsername(v)], p.id) # 0
        /\ FindDevice(heap[getUserByUsername(u)], p.id) = 0
        /\ LoginVerifyStartReply(u, p) = AuthenticatorNotFound

\* C13: the cookie of a client is set to a username only by the resume of a
\* /login/verify of that client for that username whose verifier answered
\* verified=true; no other step sets it.
C13_MarkerOnlyByVerifiedLogin ==
    [][\A c \in Clients :
          (cookie'[c] # cookie[c] /\ cookie'[c] # NoCookie)
              => \E r \in BagToSet(req) :
                    /\ r.op = "loginVerify"
                    /\ r.client = c
                    /\ r.username = cookie'[c]
                    /\ r.result.kind = "verified"
                    /\ LoginVerifyResume(r)]_vars

C13_Witness ==
    \E c \in Clients :
        /\ cookie[c] = "bob"
        /\ verifiedSince["bob"]
        /\ Len(StoredDevices("bob")) = 1

\* C14 as claimed: the /register/options requests for one username that are
\* in flight together all use the same User.
C14_SameUserForEveryRequest ==
    \A r1, r2 \in BagToSet(req) :
        ( /\ r1.op = "registerOptions"
          /\ r2.op = "registerOptions"
          /\ r1.username = r2.username )
            => r1.user = r2.user

\* C14 as amended: get-or-create is one step.  A /register/options request
\* creates a User exactly when the store holds none for the username and
\* stores it under that name; otherwise it creates none and uses the stored
\* one, so a request that arrives while an earlier one for the name is in
\* flight and that one's User is still stored joins it; no User is stored
\* under two usernames.
C14_GetOrCreateAtomic ==
    /\ [][\A u \in Usernames :
            RegisterOptionsStart(u)
                => \E r \in BagToSet(req') :
                      /\ Suspended(r)
                      /\ r.op = "registerOptions"
                      /\ r.username = u
                      /\ IF getUserByUsername(u) = None
                         THEN /\ nextId' = nextId + 1
                              /\ r.user = nextId
                              /\ userCache' = [userCache EXCEPT ![u] = nextId]
                         ELSE /\ r.user = getUserByUsername(u)
                              /\ UNCHANGED <<userCache, nextId>>]_vars
    /\ [][\A r \in BagToSet(req) :
            ( /\ r.op = "registerOptions"
              /\ getUserByUsername(r.username) = r.user
              /\ RegisterOptionsStart(r.username) )
                => /\ CopiesIn(r, req') = CopiesIn(r, req) + 1
                   /\ nextId' = nextId]_vars
    /\ [](\A u, v \in Usernames :
            (u # v /\ userCache[u] # None) => userCache[u] # userCache[v])

C14_Witness ==
    \E r \in BagToSet(req) :
        /\ r.op = "registerOptions"
        /\ CopiesIn(r, req) = 2
        /\ getUserByUsername(r.username) = r.user
        /\ nextId = 2

\* C15: /me answers loggedIn=true, with the username of the cookie, exactly
\* when the client holds a cookie and the Credential Store holds a user
\* under its username; the eviction of that user turns the answer to
\* loggedIn=false at once, the cookie still in place.
C15_SessionTiedToExistence ==
    /\ [](\A c \in Clients :
            LET exists == /\ cookie[c] \in Usernames
                          /\ userCache[cookie[c]] # None
            IN /\ MeReply(c).loggedIn <=> exists
               /\ exists => MeReply(c).username = cookie[c])
    /\ [][\A c \in Clients, u \in Usernames :
            (cookie[c] = u /\ EvictUser(u))
                => /\ MeReply(c).loggedIn
                   /\ MeReply(c)' = [loggedIn |-> FALSE, username |-> ""]
                   /\ cookie'[c] = u]_vars

C15_Witness ==
    \E c \in Clients :
        /\ cookie[c] = "alice"
        /\ userCache["alice"] = None
        /\ ~MeReply(c).loggedIn

\* C16: the expectedChallenge of a /login/verify call was issued by
\* /login/options, that of a /register/verify call by /register/options.
C16_ChallengeBoundToPurpose ==
    \A r \in BagToSet(req) :
        /\ r.op = "loginVerify"
              => issuedBy[r.expectedChallenge] = "loginOptions"
        /\ r.op = "registerVerify"
              => issuedBy[r.expectedChallenge] = "registerOptions"

\* C17: a verify call that resumes while its user holds a newer challenge
\* than the one it verified against leaves that newer challenge live.
C17_KeepsNewerChallenge ==
    [][\A r \in BagToSet(req) :
          ( /\ r.op \in VerifyOps
            /\ challengeCache[r.user] # None
            /\ challengeCache[r.user] # r.expectedChallenge
            /\ RegisterVerifyResume(r) \/ LoginVerifyResume(r) )
              => challengeCache'[r.user] = challengeCache[r.user]]_vars

\* C18: when a verify call writes its User back, the User stored under the
\* username at that moment, if there is one, is the User the call read
\* before its await.
C18_WriteBackSameUser ==
    [][\A r \in BagToSet(req) :
          ( /\ r.op \in VerifyOps
            /\ r.result.kind = "verified"
            /\ getUserByUsername(r.username) # None
            /\ RegisterVerifyResume(r) \/ LoginVerifyResume(r) )
              => getUserByUsername(r.username) = r.user]_vars

\* C19: whenever /me answers loggedIn=true, the User stored under the
\* username of the cookie is the User the /login/verify that set the cookie
\* verified against; and a /register/options request never turns the /me
\* answer of a client from loggedIn=false to loggedIn=true.
C19_MarkerDoesNotOutliveUser ==
    /\ [](\A c \in Clients :
            MeReply(c).loggedIn
                => sessionUser[c] = getUserByUsername(MeReply(c).username))
    /\ [][\A c \in Clients, u \in Usernames :
            (~MeReply(c).loggedIn /\ RegisterOptionsStart(u))
                => ~MeReply(c)'.loggedIn]_vars

\* The response with which the step that ends the invocation r answers it.
ResumeReply(r) ==
    IF r.op = "registerVerify" THEN RegisterVerifyResumeReply(r)
    ELSE IF r.op = "loginVerify" THEN LoginVerifyResumeReply(r)
    ELSE Reply(200, "options")

\* A request arrives and is suspended at its await.
Arrival == InFlight' > InFlight

\* C20: every request gets exactly one response, success or 400.  A handler
\* that does not suspend answers in the step that runs it; a suspended
\* invocation can always continue, whatever else is in flight, leaves the
\* requests in flight only by the step that sends its response, and that
\* response is a success or a 400; and unless requests keep arriving, the
\* requests in flight are all answered in the end.
C20_EveryRequestAnswered ==
    /\ [](\A u \in Names, p \in Posted :
            /\ RegisterOptionsStartReply(u) \in {Awaits, Reply(400,
                                                  "Username is required")}
            /\ LoginOptionsStartReply(u) \in {Awaits, UserNotFound}
            /\ RegisterVerifyStartReply(u) = Awaits
                  \/ RegisterVerifyStartReply(u).status = 400
            /\ LoginVerifyStartReply(u, p) = Awaits
                  \/ LoginVerifyStartReply(u, p).status = 400)
    /\ [](\A r \in BagToSet(req) : ENABLED Continue(r))
    /\ [][\A r \in BagToSet(req) :
            CopiesIn(r, req') < CopiesIn(r, req)
                => /\ CopiesIn(r, req') = CopiesIn(r, req) - 1
                   /\ ResumeReply(r).status \in {200, 400}
                   /\ \/ RegisterOptionsResume(r)
                      \/ RegisterVerifyResume(r)
                      \/ LoginOptionsResume(r)
                      \/ LoginVerifyResume(r)]_vars
    /\ ([]<>(req = EmptyBag) \/ []<><<Arrival>>_vars)
====
